---- MODULE Spec2Model ----
(***************************************************************************)
(* Session and API-access layer of fifa-tracker-web.                       *)
(*                                                                         *)
(* AuthProvider (src/lib/auth.tsx) keeps the in-memory Session (user,      *)
(* accessToken, isLoading); the API module (lib/api) keeps nothing in      *)
(* memory and reads/writes the three localStorage keys.  JavaScript runs   *)
(* one task at a time: an action below is one event-loop task (a UI        *)
(* callback or the arrival of an HTTP response) up to the point where the  *)
(* code awaits the network, or up to the point where the axios promise of  *)
(* an authenticated request settles.  The continuation of the function     *)
(* that awaited that promise is the next action, and nothing else may run  *)
(* in between (Quiet).                                                     *)
(***************************************************************************)
EXTENDS Integers, FiniteSets, Sequences, TLC

\* ---------------------------------------------------------------- bounds
MaxReqs == 2      \* authenticated requests issued in one run
MaxSigns == 1     \* signIn / signUp calls in one run

\* ---------------------------------------------------------------- values
NoTok == "none"                 \* null / key absent
Tokens == {"a1", "a2"}          \* access tokens
StoredTokens == {NoTok, "a1"}   \* the token key when the page loads
IssuedTokens == Tokens \ StoredTokens  \* the server issues fresh tokens
RTokens == {"r1"}               \* refresh tokens
Ids == {"1"}                    \* user ids in login / register responses
ProfileIds == {"1", "2"}        \* full profiles GET /auth/me can return
Null == <<"null">>              \* the JavaScript value null
FullProfile(id) == <<"full", id>>
Profiles == {FullProfile(i) : i \in ProfileIds}

Absent == <<>>                  \* localStorage.getItem(...) === null
Malformed == <<"malformed">>    \* a string JSON.parse rejects

ReqIds == 1..MaxReqs

VARIABLES
  storage,      \* localStorage: [user, token, refresh]
  user,         \* useState<User | null>
  accessToken,  \* useState<string | null>
  isLoading,    \* useState(true)
  location,     \* window.location.href
  restorePc,    \* position of checkAuth: "init", "wait", "done", "threw"
  restoreLog,   \* what checkAuth read and what it left at its end
  sign,         \* the signIn / signUp call in progress
  signCount,    \* signIn / signUp calls made
  loginGen,     \* login responses that wrote an access token
  reqs,         \* authenticated requests, by id
  nreq,         \* authenticated requests issued
  signedOut     \* signOut has run and no login or registration has
                \* succeeded since

\* ------------------------------------------------------------ API client
\* The page the API module is loaded in and the one API operation in
\* progress.  A string that the code takes apart is a sequence of its parts:
\* a URL of its scheme, host and trailing slash, an identifier of its
\* characters, a message of its words.
VARIABLES
  page,         \* build-time environment and window.location of the page
  call          \* the API operation in progress: its arguments, the request
                \* it issued, the response and what it returned or threw

clientVars == <<page, call>>

sessionVars == <<storage, user, accessToken, isLoading, location, restorePc,
                 restoreLog, sign, signCount, loginGen, reqs, nreq, signedOut>>

vars == <<storage, user, accessToken, isLoading, location, restorePc,
          restoreLog, sign, signCount, loginGen, reqs, nreq, signedOut,
          page, call>>

Http == "http://"
Https == "https://"
Unset == <<>>                   \* an environment variable that is not set
NgrokUrls == {Unset, <<Http, "x.ngrok.app", "/">>, <<Https, "x.ngrok.app">>}
LocalUrls == {Unset, <<Https, "api.lan">>}
Environments == {"production", "development"}
Hostnames == {"localhost", "127.0.0.1", "app.example.com"}
Protocols == {"http:", "https:"}

\* the page of the session runs, where no API operation is observed
NoPage ==
  [window |-> FALSE, ENVIRONMENT |-> "development",
   API_BASE_URL_NGROK |-> Unset, LOCAL_ENV |-> Unset,
   hostname |-> "localhost", protocol |-> "http:"]

NoOutcome == [kind |-> "none", status |-> "none", detail |-> <<>>,
              data |-> <<>>]
NoResult == [kind |-> "none", value |-> <<>>]
NoCall ==
  [pc |-> "idle", op |-> "none", id |-> <<>>, other |-> <<>>,
   pageArg |-> <<>>, sizeArg |-> <<>>, sent |-> FALSE, base |-> <<>>,
   params |-> <<>>, out |-> NoOutcome, result |-> NoResult]

\* ------------------------------------------------------------ conversions
JSONstringify(v) == <<"json", v>>

JSONparse(s) ==
  IF Len(s) = 2 /\ s[1] = "json"
  THEN [threw |-> FALSE, val |-> s[2]]
  ELSE [threw |-> TRUE, val |-> Null]

\* JavaScript truthiness: of a token or stored token (Truthy), of a stored
\* string (Present), of a parsed or fetched value (NonNull)
Truthy(t) == t # NoTok
Present(s) == s # Absent
NonNull(v) == v # Null

\* --------------------------------------------------------------- requests
\* st: "free", "sent" (awaiting the response), "refreshing" (its 401 handler
\* awaits POST /auth/refresh), "settled" (the axios promise has settled and the
\* awaiting function has not resumed yet), "done".
\* resp is the response received, delivered the response or error the promise
\* settled with ("none" while pending).
FreeReq ==
  [st |-> "free", owner |-> "none", tok |-> NoTok, resp |-> "none",
   delivered |-> "none", data |-> Null, issues |-> 0, refreshes |-> 0,
   posts |-> 0, gotNew |-> FALSE, purged |-> FALSE, conc |-> {}, gen |-> 0]

InFlight(rs) == {q \in ReqIds : rs[q].st \in {"sent", "refreshing"}}

\* variant: the token is taken from the Session state of the provider
getAccessTokenFromSession(st) == accessToken

getAccessToken(st) == st.token

createAuthenticatedRequest(st, owner, rs, gen) ==
  [FreeReq EXCEPT !.st = "sent", !.owner = owner,
                  !.tok = getAccessToken(st), !.issues = 1,
                  !.conc = InFlight(rs), !.gen = gen]

\* no promise continuation is waiting to run
Quiet == \A q \in ReqIds : reqs[q].st # "settled"

\* variant: clears the two token keys only, as refreshToken's catch does
PurgeTokensOnly(st) ==
  [user |-> st.user, token |-> NoTok, refresh |-> NoTok]

PurgeStorage(st) ==
  [user |-> Absent, token |-> NoTok, refresh |-> NoTok]

\* ---------------------------------------------------------- refreshToken
\* refreshToken up to its await: "null" when storage holds no refresh token,
\* "post" when it sends POST /auth/refresh
refreshTokenBegin(st) == IF ~Truthy(st.refresh) THEN "null" ELSE "post"

\* the outcomes of POST /auth/refresh: the call rejects, or the response
\* carries an access token, or it carries none (NoTok)
RefreshOutcomes == {"reject", NoTok} \cup IssuedTokens

\* refreshToken after its await: the storage it leaves and the value it returns
refreshTokenEnd(st, out) ==
  IF out = "reject"
  THEN [storage |-> [st EXCEPT !.token = NoTok, !.refresh = NoTok],
        newToken |-> NoTok]
  ELSE IF Truthy(out)
       THEN [storage |-> [st EXCEPT !.token = out], newToken |-> out]
       ELSE [storage |-> st, newToken |-> NoTok]

\* ------------------------------------------- response interceptor (401)
\* variant: after a refresh that yielded a token the request is sent again
\* with the new token
InterceptorRetryAfterRefresh(rq, st, loc, newToken) ==
  IF Truthy(newToken)
  THEN [req |-> [rq EXCEPT !.st = "sent", !.tok = newToken,
                           !.issues = @ + 1, !.gotNew = TRUE],
        storage |-> st, location |-> loc]
  ELSE [req |-> [rq EXCEPT !.st = "settled", !.delivered = rq.resp,
                           !.purged = TRUE],
        storage |-> PurgeStorage(st), location |-> "/auth"]

\* the interceptor's error handler from the return of refreshToken on:
\* purge and redirect when there is no new token, then reject with the error
InterceptorAfterRefresh(rq, st, loc, newToken) ==
  [req |-> [rq EXCEPT !.st = "settled", !.delivered = rq.resp,
                      !.gotNew = Truthy(newToken),
                      !.purged = ~Truthy(newToken)],
   storage |-> IF ~Truthy(newToken) THEN PurgeStorage(st) ELSE st,
   location |-> IF ~Truthy(newToken) THEN "/auth" ELSE loc]

\* the interceptor's error handler up to its first await (or to its end)
InterceptorOnRejected(rq, st, loc, status) ==
  IF status = "401"
  THEN IF refreshTokenBegin(st) = "post"
       THEN [req |-> [rq EXCEPT !.st = "refreshing", !.resp = status,
                                !.refreshes = @ + 1, !.posts = @ + 1],
             storage |-> st, location |-> loc]
       ELSE InterceptorAfterRefresh(
              [rq EXCEPT !.resp = status, !.refreshes = @ + 1],
              st, loc, NoTok)
  ELSE [req |-> [rq EXCEPT !.st = "settled", !.resp = status,
                           !.delivered = status],
        storage |-> st, location |-> loc]

Statuses == {"200", "401", "404", "net"}

\* ------------------------------------------------------------------ Init
\* what the three keys can hold when the page loads (one representative of
\* each interchangeable value)
StoredUsers ==
  {Absent, Malformed, JSONstringify(Null), JSONstringify(FullProfile("1"))}
StoredRefresh == {NoTok, "r1"}

NoResp == [id |-> "none", access |-> NoTok, refresh |-> NoTok]
LoginResps ==
  [id : Ids, access : IssuedTokens \cup {NoTok},
   refresh : RTokens \cup {NoTok}]

IdleSign ==
  [pc |-> "idle", kind |-> "none", resp |-> NoResp, token |-> NoTok,
   result |-> "none"]

\* path: how checkAuth ended ("none" until then); savedToken: the token it
\* read, kept while it awaits its fetch; noRefresh: storage held no refresh
\* token when it started (kept while it awaits); interfered: a session
\* operation took effect while it awaited
NoLog ==
  [path |-> "none", savedToken |-> NoTok, noRefresh |-> FALSE,
   interfered |-> FALSE]

Init ==
  /\ storage \in [user : StoredUsers, token : StoredTokens,
                   refresh : StoredRefresh]
  /\ user = Null
  /\ accessToken = NoTok
  /\ isLoading = TRUE
  /\ location = "/"
  /\ restorePc = "init"
  /\ restoreLog = NoLog
  /\ sign = IdleSign
  /\ signCount = 0
  /\ loginGen = 0
  /\ reqs = [q \in ReqIds |-> FreeReq]
  /\ nreq = 0
  /\ signedOut = FALSE
  /\ page = NoPage
  /\ call = NoCall

\* ------------------------------------------------------- restoreSession
\* variant: the catch clears the user and token keys and forgets the
\* refresh-token key
checkAuthBeginKeepRefresh(st, u, t) ==
  IF Present(st.user) /\ Truthy(st.token)
  THEN LET parsed == JSONparse(st.user) IN
       IF parsed.threw
       THEN [pc |-> "done", path |-> "parseError", user |-> u,
             accessToken |-> t, isLoading |-> FALSE,
             storage |-> [PurgeStorage(st) EXCEPT !.refresh = st.refresh],
             fetch |-> FALSE]
       ELSE [pc |-> "wait", path |-> "none", user |-> parsed.val,
             accessToken |-> st.token, isLoading |-> TRUE,
             storage |-> st, fetch |-> TRUE]
  ELSE [pc |-> "done", path |-> "nosession", user |-> u,
        accessToken |-> t, isLoading |-> FALSE,
        storage |-> st, fetch |-> FALSE]

\* variant: the guard tests the saved user only, if (savedUser)
checkAuthBeginUserOnly(st, u, t) ==
  IF Present(st.user)
  THEN LET parsed == JSONparse(st.user) IN
       IF parsed.threw
       THEN [pc |-> "done", path |-> "parseError", user |-> u,
             accessToken |-> t, isLoading |-> FALSE,
             storage |-> PurgeStorage(st), fetch |-> FALSE]
       ELSE [pc |-> "wait", path |-> "none", user |-> parsed.val,
             accessToken |-> st.token, isLoading |-> TRUE,
             storage |-> st, fetch |-> TRUE]
  ELSE [pc |-> "done", path |-> "nosession", user |-> u,
        accessToken |-> t, isLoading |-> FALSE,
        storage |-> st, fetch |-> FALSE]

\* checkAuth up to its await of getCurrentUser, or to its end
checkAuthBegin(st, u, t) ==
  IF Present(st.user) /\ Truthy(st.token)
  THEN LET parsed == JSONparse(st.user) IN
       IF parsed.threw
       THEN [pc |-> "done", path |-> "parseError", user |-> u,
             accessToken |-> t, isLoading |-> FALSE,
             storage |-> PurgeStorage(st), fetch |-> FALSE]
       ELSE [pc |-> "wait", path |-> "none", user |-> parsed.val,
             accessToken |-> st.token, isLoading |-> TRUE,
             storage |-> st, fetch |-> TRUE]
  ELSE [pc |-> "done", path |-> "nosession", user |-> u,
        accessToken |-> t, isLoading |-> FALSE,
        storage |-> st, fetch |-> FALSE]

CheckAuth ==
  /\ restorePc = "init"
  /\ LET b == checkAuthBegin(storage, user, accessToken)
     IN /\ restorePc' = b.pc
        /\ user' = b.user
        /\ accessToken' = b.accessToken
        /\ isLoading' = b.isLoading
        /\ storage' = b.storage
        /\ restoreLog' =
             [restoreLog EXCEPT !.path = b.path,
                                !.savedToken = IF b.fetch THEN storage.token
                                                          ELSE NoTok,
                                !.noRefresh = b.fetch
                                              /\ ~Truthy(storage.refresh)]
        /\ IF b.fetch
           THEN /\ reqs' = [reqs EXCEPT ![nreq + 1] =
                              createAuthenticatedRequest(storage, "restore",
                                                         reqs, loginGen)]
                /\ nreq' = nreq + 1
           ELSE UNCHANGED <<reqs, nreq>>
  /\ UNCHANGED <<location, sign, signCount, loginGen>>
  /\ UNCHANGED <<signedOut, page, call>>

\* getCurrentUser after its await: the response data, or null on any error
getCurrentUserResult(rq) == IF rq.delivered = "200" THEN rq.data ELSE Null

\* variant: setIsLoading(false) sits inside the if (currentUser) block
checkAuthEndStillLoading(currentUser, u, st) ==
  IF NonNull(currentUser)
  THEN [user |-> currentUser,
        storage |-> [st EXCEPT !.user = JSONstringify(currentUser)],
        isLoading |-> FALSE]
  ELSE [user |-> u, storage |-> st, isLoading |-> TRUE]

\* variant: the fresh profile is set but not written back to storage
checkAuthEndNoPersist(currentUser, u, st) ==
  IF NonNull(currentUser)
  THEN [user |-> currentUser, storage |-> st, isLoading |-> FALSE]
  ELSE [user |-> u, storage |-> st, isLoading |-> FALSE]

\* checkAuth after getCurrentUser has returned: the user and storage it leaves
checkAuthEnd(currentUser, u, st) ==
  IF NonNull(currentUser)
  THEN [user |-> currentUser,
        storage |-> [st EXCEPT !.user = JSONstringify(currentUser)],
        isLoading |-> FALSE]
  ELSE [user |-> u, storage |-> st, isLoading |-> FALSE]

\* a request whose caller has resumed: only what a later purge is compared
\* with is kept
Finished(rq) ==
  IF rq.purged
  THEN [FreeReq EXCEPT !.st = "done", !.purged = TRUE, !.tok = rq.tok,
                       !.conc = rq.conc, !.gen = rq.gen]
  ELSE [FreeReq EXCEPT !.st = "done"]

RestoreResume(r) ==
  /\ reqs[r].st = "settled"
  /\ reqs[r].owner = "restore"
  /\ LET currentUser == getCurrentUserResult(reqs[r])
         e == checkAuthEnd(currentUser, user, storage)
     IN /\ user' = e.user
        /\ storage' = e.storage
        /\ isLoading' = e.isLoading
        /\ restoreLog' =
             [restoreLog EXCEPT !.path = IF NonNull(currentUser)
                                         THEN "fetchOk" ELSE "fetchFail",
                                !.savedToken = NoTok,
                                !.noRefresh = FALSE]
  /\ restorePc' = "done"
  /\ reqs' = [reqs EXCEPT ![r] = Finished(reqs[r])]
  /\ UNCHANGED <<accessToken, location, sign, signCount, loginGen, nreq>>
  /\ UNCHANGED <<signedOut, page, call>>

\* ------------------------------------------------ authenticated requests
\* what a 200 response carries: a profile for GET /auth/me; the payload of a
\* read operation is not modelled
ResponseData(rq) == IF rq.owner = "api" THEN {Null} ELSE Profiles

\* the response to request r arrives; on an error the interceptor runs
Respond(r) ==
  /\ Quiet
  /\ reqs[r].st = "sent"
  /\ \E status \in Statuses, d \in ResponseData(reqs[r]) :
       IF status = "200"
       THEN /\ reqs' = [reqs EXCEPT ![r].st = "settled", ![r].resp = status,
                                    ![r].delivered = status, ![r].data = d]
            /\ UNCHANGED <<storage, location>>
       ELSE LET h == InterceptorOnRejected(reqs[r], storage, location, status)
            IN /\ reqs' = [reqs EXCEPT ![r] = h.req]
               /\ storage' = h.storage
               /\ location' = h.location
  /\ UNCHANGED <<user, accessToken, isLoading, restorePc, restoreLog, sign,
                 signCount, loginGen, nreq>>
  /\ UNCHANGED <<signedOut, page, call>>

\* the response to the POST /auth/refresh of request r's 401 handler arrives
RefreshRespond(r) ==
  /\ Quiet
  /\ reqs[r].st = "refreshing"
  /\ \E out \in RefreshOutcomes :
       LET e == refreshTokenEnd(storage, out)
           h == InterceptorAfterRefresh(reqs[r], e.storage, location,
                                        e.newToken)
       IN /\ reqs' = [reqs EXCEPT ![r] = h.req]
          /\ storage' = h.storage
          /\ location' = h.location
  /\ UNCHANGED <<user, accessToken, isLoading, restorePc, restoreLog, sign,
                 signCount, loginGen, nreq>>
  /\ UNCHANGED <<signedOut, page, call>>

\* a UI component calls a read operation built on createAuthenticatedRequest
ApiCall ==
  /\ Quiet
  /\ restorePc # "init"
  /\ nreq + (IF sign.pc = "login" THEN 1 ELSE 0) < MaxReqs
  /\ reqs' = [reqs EXCEPT ![nreq + 1] =
                createAuthenticatedRequest(storage, "api", reqs, loginGen)]
  /\ nreq' = nreq + 1
  /\ UNCHANGED <<storage, user, accessToken, isLoading, location, restorePc,
                 restoreLog, sign, signCount, loginGen>>
  /\ UNCHANGED <<signedOut, page, call>>

\* the read operation's catch / return: it touches neither Session nor storage
ApiResume(r) ==
  /\ reqs[r].st = "settled"
  /\ reqs[r].owner = "api"
  /\ reqs' = [reqs EXCEPT ![r] = Finished(reqs[r])]
  /\ UNCHANGED <<storage, user, accessToken, isLoading, location, restorePc,
                 restoreLog, sign, signCount, loginGen, nreq>>
  /\ UNCHANGED <<signedOut, page, call>>
\* ------------------------------------------------------ signIn / signUp
\* a session operation that takes effect while checkAuth awaits its fetch
Interfere(log) ==
  IF restorePc = "wait" THEN [log EXCEPT !.interfered = TRUE] ELSE log

\* signIn up to its await of login
SignInStart ==
  /\ Quiet
  /\ restorePc # "init"
  /\ sign.pc = "idle"
  /\ signCount < MaxSigns
  /\ nreq < MaxReqs
  /\ sign' = [IdleSign EXCEPT !.pc = "login", !.kind = "in"]
  /\ signCount' = signCount + 1
  /\ UNCHANGED <<storage, user, accessToken, isLoading, location, restorePc,
                 restoreLog, loginGen, reqs, nreq>>
  /\ UNCHANGED <<signedOut, page, call>>

\* signUp up to its await of register
SignUpStart ==
  /\ Quiet
  /\ restorePc # "init"
  /\ sign.pc = "idle"
  /\ signCount < MaxSigns
  /\ nreq < MaxReqs
  /\ sign' = [IdleSign EXCEPT !.pc = "login", !.kind = "up"]
  /\ signCount' = signCount + 1
  /\ UNCHANGED <<storage, user, accessToken, isLoading, location, restorePc,
                 restoreLog, loginGen, reqs, nreq>>
  /\ UNCHANGED <<signedOut, page, call>>

\* variant: login returns the response and leaves storing to its caller
loginStoreNothing(st, resp) == st

\* login after its await, on a response: it stores the tokens it received
loginStore(st, resp) ==
  [st EXCEPT !.token = IF Truthy(resp.access) THEN resp.access ELSE @,
             !.refresh = IF Truthy(resp.refresh) THEN resp.refresh ELSE @]

\* variant: a failed login clears the tokens, as refreshToken's catch does
loginFailedClearsTokens(st) == [st EXCEPT !.token = NoTok, !.refresh = NoTok]

\* login's catch block: it logs, writes nothing and returns null
loginFailed(st) == st

\* register after its await, on a response: it stores nothing
registerStore(st, resp) == st

\* signIn / signUp between the return of login / register and the await of
\* getCurrentUser: the token they will set, and the refresh token they store
signToken(st, resp) == IF Truthy(resp.access) THEN resp.access ELSE st.token

signStoreRefresh(st, resp) ==
  [st EXCEPT !.refresh = IF Truthy(resp.refresh) THEN resp.refresh ELSE @]

\* POST /auth/login is answered
LoginRespond ==
  /\ Quiet
  /\ sign.pc = "login"
  /\ sign.kind = "in"
  /\ \/ \* the call rejects: login returns null, signIn returns false
        /\ sign' = [IdleSign EXCEPT !.kind = sign.kind, !.result = "false"]
        /\ storage' = loginFailed(storage)
        /\ UNCHANGED <<reqs, nreq, loginGen>>
     \/ \E resp \in LoginResps :
          LET st1 == loginStore(storage, resp)
              st2 == signStoreRefresh(st1, resp)
              gen == IF Truthy(resp.access) THEN loginGen + 1 ELSE loginGen
          IN /\ storage' = st2
             /\ sign' = [sign EXCEPT !.pc = "profile", !.resp = resp,
                                     !.token = signToken(st1, resp)]
             /\ loginGen' = gen
             /\ reqs' = [reqs EXCEPT ![nreq + 1] =
                           createAuthenticatedRequest(st2, "sign", reqs, gen)]
             /\ nreq' = nreq + 1
  /\ UNCHANGED <<user, accessToken, isLoading, location, restorePc,
                 restoreLog, signCount>>
  /\ signedOut' = (signedOut /\ sign'.pc = "idle")
  /\ UNCHANGED clientVars

\* POST /auth/register is answered
RegisterRespond ==
  /\ Quiet
  /\ sign.pc = "login"
  /\ sign.kind = "up"
  /\ \/ \* the call rejects: register returns null, signUp returns false
        /\ sign' = [IdleSign EXCEPT !.kind = sign.kind, !.result = "false"]
        /\ UNCHANGED <<storage, reqs, nreq>>
     \/ \E resp \in LoginResps :
          LET st1 == registerStore(storage, resp)
              st2 == signStoreRefresh(st1, resp)
          IN /\ storage' = st2
             /\ sign' = [sign EXCEPT !.pc = "profile", !.resp = resp,
                                     !.token = signToken(st1, resp)]
             /\ reqs' = [reqs EXCEPT ![nreq + 1] =
                           createAuthenticatedRequest(st2, "sign", reqs,
                                                      loginGen)]
             /\ nreq' = nreq + 1
  /\ UNCHANGED <<user, accessToken, isLoading, location, restorePc,
                 restoreLog, signCount, loginGen>>
  /\ signedOut' = (signedOut /\ sign'.pc = "idle")
  /\ UNCHANGED clientVars

\* the profile signIn / signUp fall back to when getCurrentUser returns null
MinimalProfile(resp) == <<"minimal", resp.id>>

\* variant: no fallback, the null result of getCurrentUser is set as the user
signEndNoFallback(currentUser, resp, token, st) ==
  LET st1 == [st EXCEPT !.user = JSONstringify(currentUser)]
  IN [user |-> currentUser,
      accessToken |-> token,
      storage |-> IF Truthy(token) THEN [st1 EXCEPT !.token = token]
                                   ELSE st1]

\* signIn / signUp after getCurrentUser has returned: the Session and storage
\* they leave
signEnd(currentUser, resp, token, st) ==
  LET u == IF NonNull(currentUser) THEN currentUser ELSE MinimalProfile(resp)
      st1 == [st EXCEPT !.user = JSONstringify(u)]
  IN [user |-> u,
      accessToken |-> token,
      storage |-> IF Truthy(token) THEN [st1 EXCEPT !.token = token]
                                   ELSE st1]

SignResume(r) ==
  /\ reqs[r].st = "settled"
  /\ reqs[r].owner = "sign"
  /\ LET e == signEnd(getCurrentUserResult(reqs[r]), sign.resp, sign.token,
                      storage)
     IN /\ user' = e.user
        /\ accessToken' = e.accessToken
        /\ storage' = e.storage
  /\ sign' = [IdleSign EXCEPT !.kind = sign.kind, !.result = "true"]
  /\ restoreLog' = Interfere(restoreLog)
  /\ reqs' = [reqs EXCEPT ![r] = Finished(reqs[r])]
  /\ UNCHANGED <<isLoading, location, restorePc, signCount, loginGen, nreq>>
  /\ signedOut' = FALSE
  /\ UNCHANGED clientVars

\* ------------------------------------------------- signOut / updateUser
\* variant: signOut clears storage and leaves the Session to a page reload
SignOutStorageOnly ==
  /\ Quiet
  /\ restorePc # "init"
  /\ storage' = PurgeStorage(storage)
  /\ restoreLog' = Interfere(restoreLog)
  /\ UNCHANGED <<user, accessToken, isLoading, location, restorePc, sign,
                 signCount, loginGen, reqs, nreq>>
  /\ signedOut' = TRUE
  /\ UNCHANGED clientVars

SignOut ==
  /\ Quiet
  /\ restorePc # "init"
  /\ user' = Null
  /\ accessToken' = NoTok
  /\ storage' = PurgeStorage(storage)
  /\ restoreLog' = Interfere(restoreLog)
  /\ UNCHANGED <<isLoading, location, restorePc, sign, signCount, loginGen, reqs, nreq>>
  /\ signedOut' = TRUE
  /\ UNCHANGED clientVars

\* the record a profile edit hands to updateUser
UpdatedProfiles == {FullProfile("2")}

\* variant: the profile is set in memory and not written to storage
updateUserNoPersist(userData, st) == [user |-> userData, storage |-> st]

\* updateUser: the user it sets and the storage it leaves
updateUser(userData, st) ==
  [user |-> userData,
   storage |-> [st EXCEPT !.user = JSONstringify(userData)]]

UpdateUser ==
  /\ Quiet
  /\ restorePc # "init"
  /\ \E userData \in UpdatedProfiles :
       LET e == updateUser(userData, storage)
       IN /\ user' = e.user
          /\ storage' = e.storage
  /\ restoreLog' = Interfere(restoreLog)
  /\ UNCHANGED <<accessToken, isLoading, location, restorePc, sign,
                 signCount, loginGen, reqs, nreq>>
  /\ UNCHANGED <<signedOut, page, call>>

\* --------------------------------------------------------- specification
Next ==
  \/ CheckAuth
  \/ \E r \in ReqIds : RestoreResume(r)
  \/ \E r \in ReqIds : Respond(r)
  \/ \E r \in ReqIds : RefreshRespond(r)
  \/ ApiCall
  \/ \E r \in ReqIds : ApiResume(r)
  \/ SignInStart
  \/ SignUpStart
  \/ LoginRespond
  \/ RegisterRespond
  \/ \E r \in ReqIds : SignResume(r)
  \/ SignOut
  \/ UpdateUser

Spec == Init /\ [][Next]_vars

\* the event loop runs every task that is ready, and every request the
\* program has sent is answered or fails
FairSpec ==
  /\ Spec
  /\ WF_vars(CheckAuth)
  /\ \A r \in ReqIds : WF_vars(Respond(r))
  /\ \A r \in ReqIds : WF_vars(RefreshRespond(r))
  /\ \A r \in ReqIds : WF_vars(RestoreResume(r))
  /\ \A r \in ReqIds : WF_vars(SignResume(r))
  /\ \A r \in ReqIds : WF_vars(ApiResume(r))

TypeOK ==
  /\ restorePc \in {"init", "wait", "done", "threw"}
  /\ isLoading \in BOOLEAN
  /\ nreq \in 0..MaxReqs
  /\ signCount \in 0..MaxSigns

Purged == [user |-> Absent, token |-> NoTok, refresh |-> NoTok]

\* ================================================================ API client
\* --------------------------------------------------------- string helpers
\* String.prototype.replace(from, to) with a string pattern: the first
\* occurrence only
RECURSIVE replace(_, _, _)
replace(s, from, to) ==
  IF s = <<>> THEN <<>>
  ELSE IF Head(s) = from THEN <<to>> \o Tail(s)
       ELSE <<Head(s)>> \o replace(Tail(s), from, to)

\* replace(/\/$/, ''): a trailing slash is removed
stripTrailingSlash(s) ==
  IF s # <<>> /\ s[Len(s)] = "/" THEN SubSeq(s, 1, Len(s) - 1) ELSE s

startsWith(s, prefix) == s # <<>> /\ Head(s) = prefix

Whitespace == {" ", "\t"}

RECURSIVE trimStart(_)
trimStart(s) ==
  IF s # <<>> /\ Head(s) \in Whitespace THEN trimStart(Tail(s)) ELSE s

RECURSIVE trimEnd(_)
trimEnd(s) ==
  IF s # <<>> /\ s[Len(s)] \in Whitespace
  THEN trimEnd(SubSeq(s, 1, Len(s) - 1)) ELSE s

\* String.prototype.trim
trim(s) == trimEnd(trimStart(s))

\* String.prototype.includes, on a message and a phrase given by their words
includes(msg, phrase) ==
  \E i \in 1..(Len(msg) - Len(phrase) + 1) :
    SubSeq(msg, i, i + Len(phrase) - 1) = phrase

\* ---------------------------------------------------------------- base URL
\* API_BASE_URL_LOCAL: the environment value, or the built-in default
API_BASE_URL_LOCAL(pg) ==
  IF pg.LOCAL_ENV # Unset THEN pg.LOCAL_ENV ELSE <<Http, "localhost:8000">>

\* the ngrok URL forced to https, without trailing slash, with the API prefix
ngrokResult(pg) ==
  stripTrailingSlash(replace(pg.API_BASE_URL_NGROK, Http, Https))
    \o <<"/api/v1">>

getApiBaseUrl(pg) ==
  IF pg.window
  THEN IF pg.ENVIRONMENT = "production" /\ pg.API_BASE_URL_NGROK # Unset
       THEN ngrokResult(pg)
       ELSE IF pg.hostname = "localhost" \/ pg.hostname = "127.0.0.1"
            THEN API_BASE_URL_LOCAL(pg) \o <<"/api/v1">>
            ELSE IF pg.API_BASE_URL_NGROK # Unset
                 THEN ngrokResult(pg)
                 ELSE API_BASE_URL_LOCAL(pg) \o <<"/api/v1">>
  ELSE API_BASE_URL_LOCAL(pg) \o <<"/api/v1">>

\* the module-level constant login, register and refreshToken post to
API_BASE_URL(pg) == getApiBaseUrl(pg)

\* the baseURL createAuthenticatedRequest gives its axios instance
finalBaseUrl(pg) ==
  LET freshApiBaseUrl == getApiBaseUrl(pg)
      forced == IF pg.window /\ ( \/ pg.protocol = "https:"
                                  \/ pg.hostname # "localhost" )
                THEN replace(freshApiBaseUrl, Http, Https)
                ELSE freshApiBaseUrl
  IN IF pg.window /\ pg.hostname # "localhost" /\ startsWith(forced, Http)
     THEN replace(forced, Http, Https)
     ELSE forced

\* ------------------------------------------------------------- operations
SwallowListOps ==
  {"getPlayers", "getTable", "getMatchHistory", "getTournaments",
   "getAllUsersStats"}
TournamentListOps == {"getTournamentPlayers", "getTournamentStandings"}
FriendReadOps ==
  {"getFriendRequests", "getFriends", "getRecentNonFriendOpponents"}
ReadOps ==
  SwallowListOps \cup TournamentListOps \cup FriendReadOps
    \cup {"getTournamentMatches", "getHeadToHead"}
FriendWriteOps ==
  {"sendFriendRequest", "acceptFriendRequest", "rejectFriendRequest"}
TournamentWriteOps == {"updateTournament", "deleteTournament"}
PlainOps == {"login", "register", "refreshToken"}
Ops ==
  ReadOps \cup FriendWriteOps \cup TournamentWriteOps \cup PlainOps

\* identifiers a caller passes: empty, whitespace only, and proper ones
TournamentIds == {<<>>, <<" ">>, <<"\t", " ">>, <<"t", "1">>, <<"t", " ">>}
PlayerIds == {<<"p", "1">>}

\* page and page_size as passed: omitted (<<>>) or a number
DefaultPage == 1
DefaultPageSize == 50
MaxPage == 2
PageArgs == {<<>>} \cup {<<n>> : n \in 0..MaxPage}
SizeArgs == {<<>>, <<10>>}

\* a default parameter value
Arg(a, default) == IF a = <<>> THEN default ELSE a[1]

\* ---------------------------------------------------------------- results
Resolve(v) == [kind |-> "resolve", value |-> v]
Reject(msg) == [kind |-> "reject", value |-> msg]

EmptyList == <<>>
JsNull == <<"null">>

ZeroPage(page_size) ==
  [items |-> EmptyList, total |-> 0, page |-> 1, page_size |-> page_size,
   total_pages |-> 0, has_next |-> FALSE, has_previous |-> FALSE]

ZeroHeadToHead(player1_id, player2_id) ==
  [player1_id |-> player1_id, player2_id |-> player2_id,
   player1_name |-> <<>>, player2_name |-> <<>>, total_matches |-> 0,
   player1_wins |-> 0, player2_wins |-> 0, draws |-> 0]

NoFriendRequests ==
  [sent_requests |-> EmptyList, received_requests |-> EmptyList]

\* what the catch block of a read operation returns
Default(c) ==
  CASE c.op = "getTournamentMatches"
         -> ZeroPage(Arg(c.sizeArg, DefaultPageSize))
    [] c.op = "getHeadToHead" -> ZeroHeadToHead(c.id, c.other)
    [] c.op = "getFriendRequests" -> NoFriendRequests
    [] OTHER -> EmptyList

\* ---------------------------------------------------------------- outcomes
\* how the request of an operation ends: a 2xx response with data, an error
\* response with a status and possibly a detail, no response at all, or an
\* exception that is no axios error.  The response interceptor rejects with
\* the error it was given, so the catch block sees the error of the request.
ErrorStatuses == {"400", "401", "403", "404", "409", "500"}
Details == {<<>>, <<"Tournament", "is", "locked">>}

\* the paginated object the server answers with: the page it settled on
ServerPage(p, page_size) ==
  [items |-> <<"m1">>, total |-> 1, page |-> p, page_size |-> page_size,
   total_pages |-> 1, has_next |-> FALSE, has_previous |-> FALSE]

ServerData(c) ==
  CASE c.op = "getTournamentMatches"
         -> {ServerPage(1, c.params[2])}
    [] c.op = "getHeadToHead"
         -> {[ZeroHeadToHead(c.id, c.other) EXCEPT !.total_matches = 1]}
    [] c.op = "getFriendRequests"
         -> {[NoFriendRequests EXCEPT !.sent_requests = <<"f1">>]}
    [] OTHER -> {<<"d1">>, JsNull}

Outcomes(c) ==
  {[kind |-> "ok", status |-> "200", detail |-> <<>>, data |-> d] :
     d \in ServerData(c)}
  \cup {[kind |-> "http", status |-> s, detail |-> d, data |-> <<>>] :
          s \in ErrorStatuses, d \in Details}
  \cup {[kind |-> "network", status |-> "none", detail |-> <<>>,
         data |-> <<>>],
        [kind |-> "other", status |-> "none", detail |-> <<>>,
         data |-> <<>>]}

\* axios.isAxiosError(error)
isAxiosError(out) == out.kind \in {"http", "network"}

\* axiosError.message
axiosMessage(out) ==
  IF out.kind = "http"
  THEN <<"Request", "failed", "with", "status", "code", out.status>>
  ELSE <<"Network", "Error">>

\* errorData?.detail || axiosError.message
detailOrMessage(out) ==
  IF out.detail # <<>> THEN out.detail ELSE axiosMessage(out)

AuthRequired ==
  <<"Authentication", "required.", "Please", "log", "in", "again.">>

\* --------------------------------------------------------- catch blocks
\* variant: a tournament that is gone counts as deleted
deleteTournamentCatchQuiet404(out) ==
  IF isAxiosError(out)
  THEN IF out.status = "403"
       THEN Reject(<<"You", "do", "not", "have", "permission", "to",
                     "delete", "this", "tournament.", "Only", "the",
                     "tournament", "owner", "can", "delete", "it.">>)
       ELSE IF out.status = "404"
            THEN Resolve(<<>>)
            ELSE IF out.status = "401"
                 THEN Reject(AuthRequired)
                 ELSE Reject(<<"Failed", "to", "delete", "tournament:">>
                               \o detailOrMessage(out))
  ELSE Reject(<<"Failed", "to", "delete", "tournament.", "Please", "try",
                "again.">>)

deleteTournamentCatch(out) ==
  IF isAxiosError(out)
  THEN IF out.status = "403"
       THEN Reject(<<"You", "do", "not", "have", "permission", "to",
                     "delete", "this", "tournament.", "Only", "the",
                     "tournament", "owner", "can", "delete", "it.">>)
       ELSE IF out.status = "404"
            THEN Reject(<<"Tournament", "not", "found.">>)
            ELSE IF out.status = "401"
                 THEN Reject(AuthRequired)
                 ELSE Reject(<<"Failed", "to", "delete", "tournament:">>
                               \o detailOrMessage(out))
  ELSE Reject(<<"Failed", "to", "delete", "tournament.", "Please", "try",
                "again.">>)

updateTournamentCatch(out) == Resolve(JsNull)

\* variant: an error without response is swallowed, as the write operations
\* that return null do
sendFriendRequestCatchNullOffline(out) ==
  IF out.kind = "http"
  THEN IF out.status = "400"
       THEN Reject(<<"Cannot", "send", "friend", "request", "to",
                     "yourself", "or", "to", "an", "existing", "friend.">>)
       ELSE IF out.status = "404"
            THEN Reject(<<"User", "not", "found.">>)
            ELSE IF out.status = "409"
                 THEN Reject(<<"Friend", "request", "already", "sent",
                               "or", "received.">>)
                 ELSE IF out.status = "401"
                      THEN Reject(AuthRequired)
                      ELSE Reject(<<"Failed", "to", "send", "friend",
                                    "request:">> \o detailOrMessage(out))
  ELSE Resolve(JsNull)

sendFriendRequestCatch(out) ==
  IF isAxiosError(out)
  THEN IF out.status = "400"
       THEN Reject(<<"Cannot", "send", "friend", "request", "to",
                     "yourself", "or", "to", "an", "existing", "friend.">>)
       ELSE IF out.status = "404"
            THEN Reject(<<"User", "not", "found.">>)
            ELSE IF out.status = "409"
                 THEN Reject(<<"Friend", "request", "already", "sent",
                               "or", "received.">>)
                 ELSE IF out.status = "401"
                      THEN Reject(AuthRequired)
                      ELSE Reject(<<"Failed", "to", "send", "friend",
                                    "request:">> \o detailOrMessage(out))
  ELSE Reject(<<"Failed", "to", "send", "friend", "request.", "Please",
                "try", "again.">>)

\* acceptFriendRequest and rejectFriendRequest differ in one word
answerFriendRequestCatch(verb, out) ==
  IF isAxiosError(out)
  THEN IF out.status = "404"
       THEN Reject(<<"Friend", "request", "not", "found.">>)
       ELSE IF out.status = "400"
            THEN Reject(<<"Cannot", verb, "this", "friend", "request.">>)
            ELSE IF out.status = "401"
                 THEN Reject(AuthRequired)
                 ELSE Reject(<<"Failed", "to", verb, "friend", "request:">>
                               \o detailOrMessage(out))
  ELSE Reject(<<"Failed", "to", verb, "friend", "request.", "Please",
                "try", "again.">>)

\* getFriendRequests, getFriends, getRecentNonFriendOpponents
friendReadCatch(c, out) ==
  IF isAxiosError(out) /\ out.status = "401"
  THEN Reject(AuthRequired)
  ELSE Resolve(Default(c))

\* login, register (null) and refreshToken (null)
plainCatch(out) == Resolve(JsNull)

\* the catch block of the operation of call c, on error out
Catch(c, out) ==
  CASE c.op = "deleteTournament" -> deleteTournamentCatch(out)
    [] c.op = "updateTournament" -> updateTournamentCatch(out)
    [] c.op = "sendFriendRequest" -> sendFriendRequestCatch(out)
    [] c.op = "acceptFriendRequest" -> answerFriendRequestCatch("accept", out)
    [] c.op = "rejectFriendRequest" -> answerFriendRequestCatch("reject", out)
    [] c.op \in FriendReadOps -> friendReadCatch(c, out)
    [] c.op \in PlainOps -> plainCatch(out)
    [] OTHER -> Resolve(Default(c))

\* what the operation returns on a 2xx response: response.data (for
\* refreshToken the data stands for the access token it carries)
Return(c, out) ==
  IF c.op = "deleteTournament" THEN Resolve(<<>>) ELSE Resolve(out.data)

\* ------------------------------------------------------------ the request
\* variant: only the empty string is refused
emptyTournamentIdNoTrim(tournament_id) == tournament_id = <<>>

\* !tournament_id || tournament_id.trim() === ''
emptyTournamentId(tournament_id) ==
  tournament_id = <<>> \/ trim(tournament_id) = <<>>

\* variant: the client keeps the page at 1 or above
getTournamentMatchesParamsClamped(pageArg, sizeArg) ==
  <<IF Arg(pageArg, DefaultPage) < 1 THEN 1 ELSE Arg(pageArg, DefaultPage),
    Arg(sizeArg, DefaultPageSize)>>

\* params: { page, page_size }
getTournamentMatchesParams(pageArg, sizeArg) ==
  <<Arg(pageArg, DefaultPage), Arg(sizeArg, DefaultPageSize)>>

TournamentGetters == TournamentListOps \cup {"getTournamentMatches"}

\* the operation returns before it builds a request
ReturnsAtOnce(c) == c.op \in TournamentGetters /\ emptyTournamentId(c.id)

BaseUrl(c, pg) ==
  IF c.op \in PlainOps THEN API_BASE_URL(pg) ELSE finalBaseUrl(pg)

\* the calls a component can make
Calls ==
  {[NoCall EXCEPT !.op = o] : o \in Ops \ (TournamentGetters
                                 \cup TournamentWriteOps
                                 \cup {"getHeadToHead"})}
  \cup {[NoCall EXCEPT !.op = o, !.id = i] :
          o \in TournamentListOps \cup TournamentWriteOps,
          i \in TournamentIds}
  \cup {[NoCall EXCEPT !.op = "getTournamentMatches", !.id = i,
                       !.pageArg = p, !.sizeArg = z] :
          i \in TournamentIds, p \in PageArgs, z \in SizeArgs}
  \cup {[NoCall EXCEPT !.op = "getHeadToHead", !.id = i, !.other = i] :
          i \in PlayerIds}

\* ---------------------------------------------------------------- actions
Pages ==
  {pg \in [window : BOOLEAN, ENVIRONMENT : Environments,
           API_BASE_URL_NGROK : NgrokUrls, LOCAL_ENV : LocalUrls,
           hostname : Hostnames, protocol : Protocols] :
     ~pg.window => (pg.hostname = "localhost" /\ pg.protocol = "http:")}

\* the session part of the state while the API operations are observed
SessionAtRest ==
  /\ storage = Purged
  /\ user = Null
  /\ accessToken = NoTok
  /\ isLoading = FALSE
  /\ location = "/"
  /\ restorePc = "done"
  /\ restoreLog = NoLog
  /\ sign = IdleSign
  /\ signCount = 0
  /\ loginGen = 0
  /\ reqs = [q \in ReqIds |-> FreeReq]
  /\ nreq = 0
  /\ signedOut = FALSE

ClientInit ==
  /\ SessionAtRest
  /\ page \in Pages
  /\ call = NoCall

\* an operation is called: it returns at once or issues its request
Invoke ==
  /\ call.pc = "idle"
  /\ \E c \in Calls :
       IF ReturnsAtOnce(c)
       THEN call' = [c EXCEPT !.pc = "done",
                              !.result = Resolve(Default(c))]
       ELSE call' = [c EXCEPT !.pc = "sent", !.sent = TRUE,
                              !.base = BaseUrl(c, page),
                              !.params =
                                IF c.op = "getTournamentMatches"
                                THEN getTournamentMatchesParams(c.pageArg,
                                                                c.sizeArg)
                                ELSE <<>>]
  /\ UNCHANGED page
  /\ UNCHANGED sessionVars

\* the request ends and the operation returns or throws
Settle ==
  /\ call.pc = "sent"
  /\ \E out \in Outcomes(call) :
       call' = [call EXCEPT !.pc = "done", !.out = out,
                            !.result = IF out.kind = "ok"
                                       THEN Return(call, out)
                                       ELSE Catch(call, out)]
  /\ UNCHANGED page
  /\ UNCHANGED sessionVars

\* the caller has taken the result
Forget ==
  /\ call.pc = "done"
  /\ call' = NoCall
  /\ UNCHANGED page
  /\ UNCHANGED sessionVars

ClientNext == Invoke \/ Settle \/ Forget

ClientSpec == ClientInit /\ [][ClientNext]_vars


\* ------------------------------------------------------------------ C1
\* C1: a request answered 401 has refreshToken invoked exactly once for it, is
\* never issued a second time, and settles by rejecting with that 401 error,
\* whether or not the refresh yielded a new access token
C1_RefreshOnceNoRetry ==
  \A r \in ReqIds :
    /\ reqs[r].issues <= 1
    /\ reqs[r].refreshes <= 1
    /\ (reqs[r].resp = "401" => reqs[r].refreshes = 1)
    /\ (reqs[r].st = "settled" /\ reqs[r].refreshes >= 1
          => reqs[r].delivered = "401" /\ reqs[r].resp = "401")

\* the handler of a 401 has ended after a refresh that yielded a new token
C1_Witness ==
  \E r \in ReqIds :
    /\ reqs[r].st = "settled"
    /\ reqs[r].resp = "401"
    /\ reqs[r].gotNew
    /\ storage.token \in IssuedTokens

\* ------------------------------------------------------------------ C2
\* C2: when the handler of a 401 ends and the refresh gave no new access token
\* (no refresh token stored, the endpoint rejected, or it returned none), the
\* three storage keys are absent and the redirect to /auth has been requested
C2_FailedRefreshPurges ==
  \A r \in ReqIds :
    (reqs[r].st = "settled" /\ reqs[r].resp = "401" /\ ~reqs[r].gotNew)
      => (storage = Purged /\ location = "/auth")

\* the handler of a 401 has ended after POST /auth/refresh failed
C2_Witness ==
  \E r \in ReqIds :
    /\ reqs[r].st = "settled"
    /\ reqs[r].resp = "401"
    /\ ~reqs[r].gotNew
    /\ reqs[r].posts = 1

\* ------------------------------------------------------------------ C3
\* C3: two requests that are in flight together and are each answered 401
\* cause no more than one POST /auth/refresh between them
C3_SingleRefreshCall ==
  \A r1, r2 \in ReqIds :
    (r1 # r2 /\ r1 \in reqs[r2].conc
       /\ reqs[r1].resp = "401" /\ reqs[r2].resp = "401")
      => reqs[r1].posts + reqs[r2].posts <= 1

\* ------------------------------------------------------------------ C4
\* C4: once the login response of a signIn has written its tokens to storage,
\* the 401 handler of a request issued before that login does not remove them
C4_PurgeSparesNewLogin ==
  [][\A r \in ReqIds :
       ( /\ reqs[r].st \in {"sent", "refreshing"}
         /\ reqs'[r].st = "settled"
         /\ reqs[r].gen < loginGen
         /\ sign.pc = "profile" /\ sign.kind = "in"
         /\ Truthy(sign.resp.access)
         /\ storage.token = sign.resp.access )
       => ( /\ storage'.token = sign.resp.access
            /\ (Truthy(sign.resp.refresh)
                   => storage'.refresh = storage.refresh) )]_vars

\* ------------------------------------------------------------------ C5
\* C5: of the requests that were in flight together with the same credentials
\* and were answered 401, at most one performs the purge and the redirect
C5_PurgeOnce ==
  \A r1, r2 \in ReqIds :
    (r1 # r2 /\ r1 \in reqs[r2].conc
       /\ reqs[r1].tok = reqs[r2].tok /\ reqs[r1].gen = reqs[r2].gen)
      => ~(reqs[r1].purged /\ reqs[r2].purged)

\* ------------------------------------------------------------------ C6
\* C6: once the restore has finished (isLoading = false), a non-null
\* accessToken comes with a non-null user
C6_TokenImpliesUser ==
  (isLoading = FALSE /\ accessToken # NoTok) => user # Null

\* ------------------------------------------------------------------ C7
\* C7: a restore that read a user profile and an access token and whose
\* profile fetch fails ends with an empty Session and none of the three
\* storage keys present (no other session operation having taken effect
\* meanwhile)
C7_FetchFailureClears ==
  [][( /\ restorePc = "wait" /\ restorePc' = "done"
       /\ restoreLog'.path = "fetchFail"
       /\ ~restoreLog.interfered
       /\ user \in Profiles )
      => (user' = Null /\ accessToken' = NoTok /\ storage' = Purged)]_vars

\* ------------------------------------------------------------------ C8
\* C8: a restore that read user U and token T, whose profile fetch (sent with
\* T) succeeds with U', and during which no other session operation took
\* effect, ends with Session.user = U', Session.accessToken = T and the
\* storage user key holding U'
C8_RestoreRoundTrip ==
  [][\A r \in ReqIds :
       ( /\ reqs[r].st = "settled" /\ reqs[r].owner = "restore"
         /\ reqs[r].delivered = "200"
         /\ restorePc' = "done"
         /\ ~restoreLog.interfered )
       => ( /\ reqs[r].tok = restoreLog.savedToken
            /\ user' = reqs[r].data
            /\ accessToken' = restoreLog.savedToken
            /\ storage'.user = JSONstringify(reqs[r].data)
            /\ JSONparse(storage'.user).val = reqs[r].data )]_vars

\* a restore ended that way, with a profile other than the persisted one
C8_Witness ==
  /\ restorePc = "done"
  /\ restoreLog.path = "fetchOk"
  /\ ~restoreLog.interfered
  /\ user = FullProfile("2")
  /\ accessToken = "a1"
  /\ storage.user = JSONstringify(FullProfile("2"))

\* ------------------------------------------------------------------ C9
\* C9 as amended: if the persisted user data fails to parse and an access
\* token is persisted with it, the restore ends with an empty Session, the
\* three storage keys absent and no profile fetch issued
C9_ParseFailureClears ==
  [][( /\ restorePc = "init"
       /\ Present(storage.user) /\ JSONparse(storage.user).threw
       /\ Truthy(storage.token) )
     => ( /\ restorePc' = "done" /\ isLoading' = FALSE
          /\ user' = Null /\ accessToken' = NoTok
          /\ storage' = Purged
          /\ nreq' = nreq /\ reqs' = reqs )]_vars

\* C9 as written: whenever the persisted user data fails to parse
C9_Original ==
  [][( /\ restorePc = "init"
       /\ Present(storage.user) /\ JSONparse(storage.user).threw )
     => ( /\ restorePc' = "done" /\ isLoading' = FALSE
          /\ user' = Null /\ accessToken' = NoTok
          /\ storage' = Purged
          /\ nreq' = nreq /\ reqs' = reqs )]_vars

\* the restore has ended in its catch
C9_Witness ==
  /\ restorePc = "done"
  /\ restoreLog.path = "parseError"
  /\ storage = Purged
  /\ user = Null /\ accessToken = NoTok
  /\ nreq = 0

\* ----------------------------------------------------------------- C10
\* C10: restoreSession never throws, and it always terminates with
\* isLoading = false, whatever storage held and however the profile fetch
\* (and the refresh its 401 may start) ends
C10_RestoreTerminates ==
  /\ [](restorePc # "threw")
  /\ <>[](restorePc = "done" /\ isLoading = FALSE)

\* the restore has ended after its profile fetch got 401 and the refresh failed
C10_Witness ==
  /\ restorePc = "done"
  /\ isLoading = FALSE
  /\ restoreLog.path = "fetchFail"
  /\ location = "/auth"
  /\ storage = Purged

\* ----------------------------------------------------------------- C11
\* C11 as amended: if the access token is absent from storage when the
\* restore starts, the restore ends at once with an empty Session and sends
\* no profile fetch
C11_NoTokenNoSession ==
  [][(restorePc = "init" /\ ~Truthy(storage.token))
     => ( /\ restorePc' = "done" /\ isLoading' = FALSE
          /\ user' = Null /\ accessToken' = NoTok
          /\ nreq' = nreq /\ reqs' = reqs )]_vars

\* C11 as written: a restore that found the access token or the refresh token
\* absent ends with an empty Session
C11_Original ==
  [][( /\ restorePc # "done" /\ restorePc' = "done"
       /\ ~restoreLog.interfered
       /\ \/ restorePc = "init" /\ ~Truthy(storage.token)
          \/ restorePc = "init" /\ ~Truthy(storage.refresh)
          \/ restoreLog.noRefresh /\ user \in Profiles )
     => (user' = Null /\ accessToken' = NoTok)]_vars

\* the restore has ended without a session although a user was persisted
C11_Witness ==
  /\ restorePc = "done"
  /\ restoreLog.path = "nosession"
  /\ Present(storage.user)
  /\ ~Truthy(storage.token)
  /\ user = Null /\ accessToken = NoTok
  /\ nreq = 0 /\ signCount = 0

\* ------------------------------------------------------------------ C12
\* C12: a signIn whose login fails or returns no user returns false, and no
\* step of it changes the Session (user, accessToken) or any storage key
C12_FailedSignInNoOp ==
  [][( /\ SignInStart \/ LoginRespond
       /\ sign'.pc = "login" \/ sign'.pc = "idle" )
     => ( /\ sign'.pc = "idle" => sign'.result = "false"
          /\ user' = user /\ accessToken' = accessToken
          /\ storage' = storage )]_vars

\* a signIn has returned false with a session and both tokens in place
C12_Witness ==
  /\ sign.pc = "idle" /\ sign.kind = "in" /\ sign.result = "false"
  /\ user \in Profiles
  /\ Truthy(accessToken)
  /\ Truthy(storage.token) /\ Truthy(storage.refresh)
  /\ Present(storage.user)

\* ------------------------------------------------------------------ C13
\* C13: when login returned an access token and the profile fetch of the
\* signIn failed, the signIn returns true and leaves Session.user equal to the
\* minimal profile built from the login response and Session.accessToken
\* equal to the access token of the login response
C13_FallbackProfile ==
  [][\A r \in ReqIds :
       ( /\ SignResume(r)
         /\ sign.kind = "in"
         /\ reqs[r].delivered # "200"
         /\ Truthy(sign.resp.access) )
       => ( /\ sign'.result = "true"
            /\ user' = MinimalProfile(sign.resp)
            /\ accessToken' = sign.resp.access )]_vars

\* a signIn has ended on the fallback profile
C13_Witness ==
  /\ sign.pc = "idle" /\ sign.kind = "in" /\ sign.result = "true"
  /\ \E resp \in LoginResps :
       /\ Truthy(resp.access)
       /\ user = MinimalProfile(resp)
       /\ accessToken = resp.access
       /\ storage.user = JSONstringify(MinimalProfile(resp))
       /\ storage.token = resp.access

\* ------------------------------------------------------------------ C14
\* C14: when login succeeds, the access token it returned (and the refresh
\* token, if it returned one) is in storage when signIn issues the profile
\* fetch, and that request carries the new token as its bearer credential
C14_TokenStoredBeforeFetch ==
  [][(LoginRespond /\ sign'.pc = "profile")
     => ( /\ nreq' = nreq + 1
          /\ reqs'[nreq'].st = "sent" /\ reqs'[nreq'].owner = "sign"
          /\ Truthy(sign'.resp.access)
               => ( /\ storage'.token = sign'.resp.access
                    /\ reqs'[nreq'].tok = sign'.resp.access )
          /\ Truthy(sign'.resp.refresh)
               => storage'.refresh = sign'.resp.refresh )]_vars

\* the profile fetch of a signIn is in flight with the token login returned,
\* which the Session does not hold yet
C14_Witness ==
  /\ sign.pc = "profile" /\ sign.kind = "in"
  /\ Truthy(sign.resp.access) /\ Truthy(sign.resp.refresh)
  /\ accessToken # sign.resp.access
  /\ storage.token = sign.resp.access
  /\ storage.refresh = sign.resp.refresh
  /\ \E r \in ReqIds :
       /\ reqs[r].st = "sent" /\ reqs[r].owner = "sign"
       /\ reqs[r].tok = sign.resp.access

\* ------------------------------------------------------------------ C15
\* C15: when register succeeds, the access token it returned is in storage
\* when signUp issues the profile fetch, and that request carries the new
\* token as its bearer credential
C15_SignUpTokenStoredBeforeFetch ==
  [][(RegisterRespond /\ sign'.pc = "profile")
     => ( /\ nreq' = nreq + 1
          /\ reqs'[nreq'].st = "sent" /\ reqs'[nreq'].owner = "sign"
          /\ Truthy(sign'.resp.access)
               => ( /\ storage'.token = sign'.resp.access
                    /\ reqs'[nreq'].tok = sign'.resp.access ) )]_vars

\* ------------------------------------------------------------------ C16
\* C16: signOut can run whenever the event loop is free, and from any state
\* it ends with Session.user = null, Session.accessToken = null and the three
\* storage keys absent; run in that very state, it leaves it as it is
C16_SignOutTotalIdempotent ==
  [][ /\ (Quiet /\ restorePc # "init") => ENABLED SignOut
      /\ SignOut => ( /\ user' = Null /\ accessToken' = NoTok
                      /\ storage' = Purged )
      /\ (SignOut /\ user = Null /\ accessToken = NoTok /\ storage = Purged)
           => (user' = user /\ accessToken' = accessToken
               /\ storage' = storage) ]_vars

\* signOut has run while restoreSession awaited its profile fetch
C16_Witness ==
  /\ restorePc = "wait" /\ restoreLog.interfered
  /\ signCount = 0
  /\ user = Null /\ accessToken = NoTok
  /\ storage = Purged

\* ------------------------------------------------------------------ C17
\* C17: updateUser(profile) sets Session.user and the storage user key to the
\* given profile and leaves Session.accessToken, the storage access-token key
\* and the storage refresh-token key unchanged
C17_UpdateUserFrame ==
  [][UpdateUser
     => ( /\ user' \in UpdatedProfiles
          /\ storage'.user = JSONstringify(user')
          /\ JSONparse(storage'.user) = [threw |-> FALSE, val |-> user']
          /\ accessToken' = accessToken
          /\ storage'.token = storage.token
          /\ storage'.refresh = storage.refresh )]_vars

\* updateUser has run in a signed-out page that never fetched a profile: the
\* refresh token found at start is still stored
C17_Witness ==
  /\ nreq = 0 /\ signCount = 0
  /\ restorePc = "done"
  /\ user \in UpdatedProfiles
  /\ storage.user = JSONstringify(user)
  /\ accessToken = NoTok
  /\ Truthy(storage.refresh)

\* ------------------------------------------------------------------ C18
\* C18: between the start and the completion of a signIn or signUp no signOut
\* or updateUser changes the Session or storage, and between the start and
\* the completion of a restoreSession no signOut, updateUser, signIn or signUp
\* does
C18_SerialTransitions ==
  [][( \/ sign.pc # "idle" /\ (SignOut \/ UpdateUser)
       \/ restorePc = "wait"
            /\ (SignOut \/ UpdateUser \/ \E r \in ReqIds : SignResume(r)) )
     => ( /\ user' = user /\ accessToken' = accessToken
          /\ storage' = storage )]_vars

\* ------------------------------------------------------------------ C19
\* C19: when a request whose 401 handler purged storage has been handed back
\* to its caller, the Session is empty: user = null and accessToken = null
C19_RefreshFailureEmptiesSession ==
  [][\A r \in ReqIds :
       (reqs[r].st = "settled" /\ reqs[r].purged /\ reqs'[r].st = "done")
       => (user' = Null /\ accessToken' = NoTok)]_vars

\* ------------------------------------------------------------------ C20
\* C20: a request is constructed with the access token storage holds at that
\* moment as its bearer credential (none when storage holds none), and the
\* credential of a request in flight never changes, whatever a refresh or a
\* sign-out does to storage meanwhile
C20_BearerSnapshot ==
  [][\A r \in ReqIds :
       /\ (reqs[r].st = "free" /\ reqs'[r].st = "sent")
            => reqs'[r].tok = storage'.token
       /\ (reqs[r].st \in {"sent", "refreshing"})
            => reqs'[r].tok = reqs[r].tok]_vars

\* a request in flight carries a token that storage and the Session have
\* both dropped since it was constructed
C20_Witness ==
  \E r \in ReqIds :
    /\ reqs[r].st = "sent"
    /\ Truthy(reqs[r].tok)
    /\ storage.token # reqs[r].tok
    /\ accessToken # reqs[r].tok

\* ------------------------------------------------------------------ C28
\* C28: a request constructed after signOut has run, and before a login or a
\* registration has succeeded again, carries no bearer credential
C28_NoBearerAfterSignOut ==
  [][\A r \in ReqIds :
       (signedOut' /\ reqs[r].st = "free" /\ reqs'[r].st = "sent")
       => reqs'[r].tok = NoTok]_vars

\* ------------------------------------------------------------------ C29
\* C29: while a session is active (a user and an access token are set), no
\* restore, signIn or signUp is in progress and no purge has happened, the
\* access token of the Session is the one storage holds
C29_SessionTokenIsStoredToken ==
  ( /\ NonNull(user) /\ Truthy(accessToken)
    /\ restorePc = "done" /\ sign.pc = "idle" /\ Quiet
    /\ location # "/auth" )
  => accessToken = storage.token

\* ------------------------------------------------------------------ C30
\* C30: when signIn or signUp returns true, Session.accessToken and the
\* storage token key hold the access token of that login / registration
\* response, and nothing (null, key absent) when the response carried none
C30_TokenOfThisResponse ==
  [][\A r \in ReqIds :
       SignResume(r)
       => ( /\ accessToken' = sign.resp.access
            /\ storage'.token = sign.resp.access )]_vars

\* ------------------------------------------------------------------ C21
\* C21: when the page was loaded over https, the base URL of every request an
\* operation issues (login, register and refreshToken included) has the
\* https scheme
C21_HttpsBaseUrl ==
  (call.pc = "sent" /\ page.window /\ page.protocol = "https:")
  => startsWith(call.base, Https)

\* ------------------------------------------------------------------ C22
\* C22: a read operation whose request fails, for whatever reason, resolves
\* with its empty default and never rejects
C22_ReadsSwallowErrors ==
  (call.pc = "done" /\ call.op \in ReadOps /\ call.sent
   /\ call.out.kind # "ok")
  => call.result = Resolve(Default(call))

\* ------------------------------------------------------------------ C23
\* the statement of C23, for a given phrase the 403 message must contain
C23_Statement(phrase) ==
  (call.pc = "done" /\ call.op = "deleteTournament")
  => LET out == call.out
         msg == call.result.value
     IN /\ (out.kind = "ok") <=> (call.result.kind = "resolve")
        /\ (out.kind # "ok")
             => /\ call.result.kind = "reject"
                /\ out.status = "403"
                     => ( /\ includes(msg, <<"permission">>)
                          /\ includes(msg, phrase) )
                /\ out.status = "404" => includes(msg, <<"not", "found.">>)
                /\ out.status = "401"
                     => includes(msg, <<"Authentication", "required.">>)
                /\ out.status \notin {"403", "404", "401"}
                     => /\ includes(msg, <<"Failed", "to", "delete">>)
                        /\ out.detail # <<>> => includes(msg, out.detail)

\* C23 as amended: deleteTournament resolves only on a 2xx response and
\* rejects on every failure with a message keyed by the status: 403 ->
\* permission denied, containing "Only the tournament owner"; 404 -> not
\* found; 401 -> authentication required; otherwise a generic failure that
\* carries the detail the server supplied, if any
C23_DeleteTournamentErrors ==
  C23_Statement(<<"Only", "the", "tournament", "owner">>)

\* C23 as written: the 403 message contains "only the tournament owner"
C23_Original ==
  C23_Statement(<<"only", "the", "tournament", "owner">>)

\* deleteTournament has rejected a 403
C23_Witness ==
  /\ call.pc = "done" /\ call.op = "deleteTournament"
  /\ call.out.status = "403"
  /\ call.result.kind = "reject"
  /\ includes(call.result.value, <<"tournament", "owner">>)

\* ------------------------------------------------------------------ C24
\* C24: updateTournament rejects whenever the server rejects the update
C24_UpdateTournamentRaises ==
  (call.pc = "done" /\ call.op = "updateTournament"
   /\ call.out.kind = "http")
  => call.result.kind = "reject"

\* ------------------------------------------------------------------ C25
\* C25: sendFriendRequest, acceptFriendRequest and rejectFriendRequest
\* reject with a non-empty message on every failure (any error status, no
\* response, any other exception) and resolve only on a 2xx response
C25_FriendWritesPropagate ==
  (call.pc = "done" /\ call.op \in FriendWriteOps)
  => /\ (call.out.kind = "ok") <=> (call.result.kind = "resolve")
     /\ (call.out.kind # "ok")
          => ( /\ call.result.kind = "reject"
               /\ Len(call.result.value) > 0 )

\* sendFriendRequest has rejected after a request that got no response
C25_Witness ==
  /\ call.pc = "done" /\ call.op = "sendFriendRequest"
  /\ call.out.kind = "network"
  /\ call.result.kind = "reject"
  /\ includes(call.result.value, <<"Network", "Error">>)

\* ------------------------------------------------------------------ C26
\* C26: called with an empty or whitespace-only tournament identifier,
\* getTournamentMatches, getTournamentPlayers and getTournamentStandings issue
\* no request and return their default: the zero-valued page with the
\* caller's page size for the first, the empty list for the other two
C26_EmptyIdShortCircuit ==
  ( /\ call.op \in {"getTournamentMatches", "getTournamentPlayers",
                    "getTournamentStandings"}
    /\ \A i \in 1..Len(call.id) : call.id[i] \in Whitespace )
  => /\ call.pc = "done"
     /\ ~call.sent
     /\ call.base = <<>>
     /\ call.result.kind = "resolve"
     /\ IF call.op = "getTournamentMatches"
        THEN call.result.value =
               [items |-> <<>>, total |-> 0, page |-> 1,
                page_size |-> IF call.sizeArg = <<>> THEN 50
                                                     ELSE call.sizeArg[1],
                total_pages |-> 0, has_next |-> FALSE,
                has_previous |-> FALSE]
        ELSE call.result.value = <<>>

\* getTournamentMatches has returned for a whitespace-only identifier
C26_Witness ==
  /\ call.pc = "done" /\ call.op = "getTournamentMatches"
  /\ call.id = <<"\t", " ">>
  /\ call.pageArg = <<2>> /\ call.sizeArg = <<10>>
  /\ ~call.sent
  /\ call.result.value.page = 1 /\ call.result.value.page_size = 10

\* ------------------------------------------------------------------ C27
\* C27: for a non-empty tournament identifier getTournamentMatches sends the
\* page and page_size the caller passed (1 and 50 where omitted), whatever
\* the page number, and returns the paginated object of the response as it
\* is
C27_NoClientClamp ==
  (call.op = "getTournamentMatches" /\ call.sent)
  => /\ call.params[1] = IF call.pageArg = <<>> THEN 1 ELSE call.pageArg[1]
     /\ call.params[2] = IF call.sizeArg = <<>> THEN 50 ELSE call.sizeArg[1]
     /\ (call.pc = "done" /\ call.out.kind = "ok")
          => call.result = [kind |-> "resolve", value |-> call.out.data]

\* page 0 was sent as page 0 and the page the server settled on came back
C27_Witness ==
  /\ call.pc = "done" /\ call.op = "getTournamentMatches"
  /\ call.pageArg = <<0>>
  /\ call.sent
  /\ call.out.kind = "ok"
  /\ call.params[1] = 0
  /\ call.result.value.page = 1
  /\ call.result.value.items # <<>>

====
